---- MODULE Spec2Model ----
(***************************************************************************)
(* Training and evaluation orchestration of the MWT expander               *)
(* (models/mwt_expander.py): main, train and evaluate as a state machine   *)
(* over the position in the code (pc), the local variables of the running  *)
(* function, and the files that outlive a run (configuration file, model   *)
(* files, prediction file).  External collaborators (DataLoader, Trainer,  *)
(* DictTrainer, scorer, ParamManager) appear through the calls made to     *)
(* them, recorded in order in `calls`, and through the values they return, *)
(* drawn from small sets.                                                   *)
(*                                                                         *)
(* Scores are integers (a dev F1 of s stands for s / MaxScore); learning   *)
(* rates are integers in units of 1e-6 and lr_decay is in tenths.          *)
(***************************************************************************)
EXTENDS Integers, Sequences, FiniteSets, TLC

\* ---------------------------------------------------------------- bounds
MaxEpoch == 3        \* largest --num_epoch tried
MaxBatches == 2      \* largest number of batches of a data loader
MaxScore == 1        \* dev scores range over 0..MaxScore

\* ---------------------------------------------- option values (parse_args)
DefaultLr == 1000
DefaultLrDecay == 9
Lang == "sl"
SaveDir == "saved_models/mwt"
None == "None"
NumEpochs == 0..MaxEpoch
DecayEpochs == {0, 1, 2}
LogSteps == {0, 1, 2}
SaveNames == {None, "custom.pt"}
VocabSizes == {7, 8}
Lens == 0..MaxBatches
Scores == 0..MaxScore

VARIABLES
    pc,                 \* position in main / train / evaluate
    raised,             \* the uncaught exception that ended the run, or None
    run,                \* number of invocations of main so far
    args,               \* the option mapping of the running invocation
    train_batch,        \* len(train_batch)
    dev_batch,          \* len(dev_batch)
    trainer,            \* the constructed trainer: kind, update steps, lr
    epoch,              \* loop variable of `for epoch in range(...)`
    i,                  \* loop variable of the inner batch loops
    global_step,
    max_steps,
    dev_score_history,
    current_lr,
    dev_preds,          \* predictions collected so far (batch indices)
    dev_score,          \* last value returned by scorer.score
    best,               \* (best_f, best_epoch) once computed
    calls,              \* calls made to the collaborators, in order
    config_file,        \* {save_dir}/{lang}_config.json
    model_files,        \* path -> saved trainer state
    pred_file,          \* system_pred_file
    params,             \* the preset store's record for the language
    loaded_args,        \* evaluate: utils.load_config(config_file)
    batch,              \* evaluate: len(batch)
    vocab               \* len(vocab) of the loader the trainer is built from

vars == <<pc, raised, run, args, train_batch, dev_batch, trainer, epoch, i,
          global_step, max_steps, dev_score_history, current_lr, dev_preds,
          dev_score, best, calls, config_file, model_files, pred_file,
          params, loaded_args, batch, vocab>>

\* ------------------------------------------------------------- helpers
NoFile == [absent |-> TRUE]
NoTrainer == [kind |-> "none", steps |-> 0, lr |-> 0]
NoBest == [best_f |-> -1, best_epoch |-> 0]
NoArgs == [mode |-> None]
AllCands == 0        \* the candidate list of the whole document (dict path)

Call(op, ep, n) == [op |-> op, ep |-> ep, n |-> n]

RECURSIVE Max(_)
Max(s) == IF Len(s) = 1 THEN s[1]
          ELSE LET m == Max(Tail(s)) IN IF s[1] >= m THEN s[1] ELSE m

\* np.argmax: index (0-based) of the first occurrence of the maximum
ArgMax(s) == CHOOSE k \in 0..(Len(s) - 1) :
                 /\ s[k + 1] = Max(s)
                 /\ \A j \in 0..(k - 1) : s[j + 1] # Max(s)

\* the options parse_args can return (vocab_size is not among them); evaluate
\* reads none of the training options, which a predict run leaves at one value
ParsedArgs ==
    [mode : {"train"}, lang : {Lang}, save_dir : {SaveDir},
     save_name : SaveNames, best_param : BOOLEAN, dict_only : BOOLEAN,
     num_epoch : NumEpochs, decay_epoch : DecayEpochs,
     lr : {DefaultLr}, lr_decay : {DefaultLrDecay}, log_step : LogSteps]
    \cup
    [mode : {"predict"}, lang : {Lang}, save_dir : {SaveDir},
     save_name : SaveNames, best_param : {FALSE}, dict_only : BOOLEAN,
     num_epoch : {1}, decay_epoch : {1},
     lr : {DefaultLr}, lr_decay : {DefaultLrDecay}, log_step : {1}]

\* lines 92-93
ModelFile(a) == IF a.save_name # None
                THEN a.save_dir \o "/" \o a.save_name
                ELSE a.save_dir \o "/" \o a.lang \o "_mwt_expander.pt"

ModelPaths == {ModelFile(a) : a \in ParsedArgs}

\* a record the preset store may hold when the program starts: the options and
\* best score of an earlier sequence-strategy training run (line 177)
PriorArgs == [mode |-> "train", lang |-> Lang, save_dir |-> SaveDir,
              save_name |-> SaveDir \o "/" \o Lang \o "_mwt_expander.pt",
              best_param |-> FALSE, dict_only |-> FALSE, num_epoch |-> 2,
              decay_epoch |-> 1, lr |-> DefaultLr, lr_decay |-> DefaultLrDecay,
              log_step |-> 1, vocab_size |-> 7]
Presets == {NoFile, [params |-> PriorArgs, score |-> 0],
            [params |-> PriorArgs, score |-> 100]}

Init ==
    /\ pc = "main"
    /\ raised = None
    /\ run = 0
    /\ args = NoArgs
    /\ train_batch = 0
    /\ dev_batch = 0
    /\ trainer = NoTrainer
    /\ epoch = 0
    /\ i = 0
    /\ global_step = 0
    /\ max_steps = 0
    /\ dev_score_history = <<>>
    /\ current_lr = 0
    /\ dev_preds = <<>>
    /\ dev_score = 0
    /\ best = NoBest
    /\ calls = <<>>
    /\ config_file = NoFile
    /\ model_files = [p \in ModelPaths |-> NoFile]
    /\ pred_file = NoFile
    /\ params \in Presets
    /\ loaded_args = NoArgs
    /\ batch = 0
    /\ vocab = 0

\* ------------------------------------------------------------------ main
\* The invocations explored: one training run on a machine holding no
\* configuration and no model, then a predict run, or a predict run alone.
\* evaluate reads the strategy flag, the model path and the vocabulary size
\* of the persisted options and nothing else of them, so the predict run is
\* explored after the training runs of at most one epoch whose logging and
\* decay options are 1; every outcome of training (skipped, done on either
\* path, ended by an exception before or after the first save) is among them.
FollowedUp(cfg) ==
    /\ cfg # NoFile
    /\ cfg.num_epoch <= 1
    /\ cfg.log_step = 1
    /\ cfg.decay_epoch = 1

\* lines 65-82: parse the options and dispatch on the mode.  Every local of
\* the previous invocation is gone; the files stay.
Main ==
    /\ \/ pc = "main"
       \/ /\ pc \in {"done", "exit", "fault"}
          /\ args.mode = "train"
          /\ FollowedUp(config_file)
    /\ \E a \in ParsedArgs :
        /\ a.mode = "train" => pc = "main"
        /\ args' = a
        /\ pc' = IF a.mode = "train" THEN "train" ELSE "evaluate"
    /\ run' = run + 1
    /\ raised' = None
    /\ train_batch' = 0 /\ dev_batch' = 0 /\ trainer' = NoTrainer
    /\ epoch' = 0 /\ i' = 0 /\ global_step' = 0 /\ max_steps' = 0
    /\ dev_score_history' = <<>> /\ current_lr' = 0 /\ dev_preds' = <<>>
    /\ dev_score' = 0 /\ best' = NoBest /\ calls' = <<>>
    /\ loaded_args' = NoArgs /\ batch' = 0 /\ vocab' = 0
    /\ UNCHANGED <<config_file, model_files, pred_file, params>>

\* ----------------------------------------------------------------- train
\* param_manager.load_to_args(args): the stored options overwrite the given
\* ones, key by key; without a record for the language args is returned as is
load_to_args(a) == IF params = NoFile THEN a ELSE params.params @@ a

SkipTrainingBoth(tl, dl) == tl = 0 /\ dl = 0
\* line 107
SkipTraining(tl, dl) == tl = 0 \/ dl = 0

\* lines 85-109: load the data, fix the model path, persist the configuration,
\* leave through exit() when there is no training or dev data
TrainInit ==
    /\ pc = "train"
    /\ \E tl \in Lens, dl \in Lens, v \in VocabSizes :
        LET a1 == ("vocab_size" :> v) @@ args
            a2 == [a1 EXCEPT !.save_name = ModelFile(a1)]
            a3 == IF a2.best_param THEN load_to_args(a2) ELSE a2
        IN  /\ train_batch' = tl
            /\ dev_batch' = dl
            /\ vocab' = v
            /\ args' = a3
            /\ config_file' = a3
            /\ calls' = Append(calls, Call("save_config", 0, 0))
            /\ pc' = IF SkipTraining(tl, dl) THEN "exit" ELSE "dispatch"
    /\ UNCHANGED <<raised, run, trainer, epoch, i, global_step, max_steps,
                   dev_score_history, current_lr, dev_preds, dev_score, best,
                   model_files, pred_file, params, loaded_args, batch>>

\* lines 112, 201: which trainer the strategy flag selects
TrainerKind(a) == IF a.dict_only THEN "dict" ELSE "seq"

\* lines 112-116: DictTrainer(args); trainer.train(...)
DictTrain ==
    /\ pc = "dispatch"
    /\ TrainerKind(args) = "dict"
    /\ trainer' = [kind |-> "dict", steps |-> 1, lr |-> 0]
    /\ calls' = Append(Append(calls, Call("DictTrainer", 0, 0)), Call("train", 0, 0))
    /\ pc' = "dict_predict"
    /\ UNCHANGED <<raised, run, args, train_batch, dev_batch, epoch, i,
                   global_step, max_steps, dev_score_history, current_lr,
                   dev_preds, dev_score, best, config_file, model_files,
                   pred_file, params, loaded_args, batch, vocab>>

\* line 118
DictPredict ==
    /\ pc = "dict_predict"
    /\ dev_preds' = <<AllCands>>
    /\ calls' = Append(calls, Call("predict", 0, AllCands))
    /\ pc' = "dict_write"
    /\ UNCHANGED <<raised, run, args, train_batch, dev_batch, trainer, epoch, i,
                   global_step, max_steps, dev_score_history, current_lr,
                   dev_score, best, config_file, model_files, pred_file,
                   params, loaded_args, batch, vocab>>

\* line 119
DictWrite ==
    /\ pc = "dict_write"
    /\ pred_file' = [preds |-> dev_preds]
    /\ calls' = Append(calls, Call("write", 0, Len(dev_preds)))
    /\ pc' = "dict_score"
    /\ UNCHANGED <<raised, run, args, train_batch, dev_batch, trainer, epoch, i,
                   global_step, max_steps, dev_score_history, current_lr,
                   dev_preds, dev_score, best, config_file, model_files,
                   params, loaded_args, batch, vocab>>

\* lines 120-121
DictScore ==
    /\ pc = "dict_score"
    /\ \E f \in Scores :
        /\ dev_score' = f
        /\ calls' = Append(calls, Call("score", 0, f))
    /\ pc' = "dict_save"
    /\ UNCHANGED <<raised, run, args, train_batch, dev_batch, trainer, epoch, i,
                   global_step, max_steps, dev_score_history, current_lr,
                   dev_preds, best, config_file, model_files, pred_file,
                   params, loaded_args, batch, vocab>>

\* trainer.save(filename): the trainer's state replaces the file's content
Saved(files, filename, t) == [files EXCEPT ![filename] = t]

DictSaveIfScored ==
    /\ pc = "dict_save"
    /\ IF dev_score > 0
       THEN /\ model_files' = Saved(model_files, args.save_name, trainer)
            /\ calls' = Append(calls, Call("save", 0, 0))
       ELSE UNCHANGED <<model_files, calls>>
    /\ pc' = "done"
    /\ UNCHANGED <<raised, run, args, train_batch, dev_batch, trainer, epoch, i,
                   global_step, max_steps, dev_score_history, current_lr,
                   dev_preds, dev_score, best, config_file, pred_file,
                   params, loaded_args, batch, vocab>>

\* line 122
DictSave ==
    /\ pc = "dict_save"
    /\ model_files' = Saved(model_files, args.save_name, trainer)
    /\ calls' = Append(calls, Call("save", 0, 0))
    /\ pc' = "done"
    /\ UNCHANGED <<raised, run, args, train_batch, dev_batch, trainer, epoch, i,
                   global_step, max_steps, dev_score_history, current_lr,
                   dev_preds, dev_score, best, config_file, pred_file,
                   params, loaded_args, batch, vocab>>

\* lines 125-131: Trainer(args, vocab) and the loop's locals
SeqInit ==
    /\ pc = "dispatch"
    /\ TrainerKind(args) = "seq"
    /\ trainer' = [kind |-> "seq", steps |-> 0, lr |-> args.lr]
    /\ calls' = Append(calls, Call("Trainer", 0, 0))
    /\ global_step' = 0
    /\ max_steps' = train_batch * args.num_epoch
    /\ dev_score_history' = <<>>
    /\ current_lr' = args.lr
    /\ pc' = "for_epoch"
    /\ UNCHANGED <<raised, run, args, train_batch, dev_batch, epoch, i, dev_preds,
                   dev_score, best, config_file, model_files, pred_file,
                   params, loaded_args, batch, vocab>>

\* lines 135-136: next value of range(1, num_epoch + 1), or loop exit
ForEpoch ==
    /\ pc = "for_epoch"
    /\ IF epoch < args.num_epoch
       THEN /\ epoch' = epoch + 1
            /\ i' = 0
            /\ pc' = "update"
       ELSE /\ pc' = "train_end"
            /\ UNCHANGED <<epoch, i>>
    /\ UNCHANGED <<raised, run, args, train_batch, dev_batch, trainer, global_step,
                   max_steps, dev_score_history, current_lr, dev_preds, dev_score,
                   best, calls, config_file, model_files, pred_file, params,
                   loaded_args, batch, vocab>>

\* line 142: whether the progress record is printed at this step
LogsStep(step, log_step) == step % log_step = 0

\* lines 137-145: one training batch; global_step % 0 raises ZeroDivisionError
Update ==
    /\ pc = "update"
    /\ global_step' = global_step + 1
    /\ trainer' = [trainer EXCEPT !.steps = @ + 1]
    /\ IF args.log_step = 0
       THEN /\ calls' = Append(calls, Call("update", epoch, i + 1))
            /\ raised' = "ZeroDivisionError"
            /\ pc' = "fault"
            /\ UNCHANGED <<i, dev_preds>>
       ELSE /\ calls' = IF LogsStep(global_step + 1, args.log_step)
                        THEN Append(Append(calls, Call("update", epoch, i + 1)),
                                    Call("print", epoch, global_step + 1))
                        ELSE Append(calls, Call("update", epoch, i + 1))
            /\ raised' = raised
            /\ IF i + 1 < train_batch
               THEN /\ i' = i + 1
                    /\ pc' = "update"
                    /\ UNCHANGED dev_preds
               ELSE /\ i' = 0
                    /\ dev_preds' = <<>>
                    /\ pc' = "predict"
    /\ UNCHANGED <<run, args, train_batch, dev_batch, epoch, max_steps,
                   dev_score_history, current_lr, dev_score, best, config_file,
                   model_files, pred_file, params, loaded_args, batch, vocab>>

\* lines 150-152 with the loop left after its first batch
PredictFirstOnly ==
    /\ pc = "predict"
    /\ dev_preds' = Append(dev_preds, i + 1)
    /\ calls' = Append(calls, Call("predict", epoch, i + 1))
    /\ i' = 0
    /\ pc' = "write"
    /\ UNCHANGED <<raised, run, args, train_batch, dev_batch, trainer, epoch,
                   global_step, max_steps, dev_score_history, current_lr,
                   dev_score, best, config_file, model_files, pred_file,
                   params, loaded_args, batch, vocab>>

\* lines 150-152: one dev batch
Predict ==
    /\ pc = "predict"
    /\ dev_preds' = Append(dev_preds, i + 1)
    /\ calls' = Append(calls, Call("predict", epoch, i + 1))
    /\ IF i + 1 < dev_batch
       THEN i' = i + 1 /\ pc' = "predict"
       ELSE i' = 0 /\ pc' = "write"
    /\ UNCHANGED <<raised, run, args, train_batch, dev_batch, trainer, epoch,
                   global_step, max_steps, dev_score_history, current_lr,
                   dev_score, best, config_file, model_files, pred_file,
                   params, loaded_args, batch, vocab>>

\* line 153
Write ==
    /\ pc = "write"
    /\ pred_file' = [preds |-> dev_preds]
    /\ calls' = Append(calls, Call("write", epoch, Len(dev_preds)))
    /\ pc' = "score"
    /\ UNCHANGED <<raised, run, args, train_batch, dev_batch, trainer, epoch, i,
                   global_step, max_steps, dev_score_history, current_lr,
                   dev_preds, dev_score, best, config_file, model_files,
                   params, loaded_args, batch, vocab>>

\* lines 154-157
Score ==
    /\ pc = "score"
    /\ \E f \in Scores :
        /\ dev_score' = f
        /\ calls' = Append(calls, Call("score", epoch, f))
    /\ pc' = "save_best"
    /\ UNCHANGED <<raised, run, args, train_batch, dev_batch, trainer, epoch, i,
                   global_step, max_steps, dev_score_history, current_lr,
                   dev_preds, best, config_file, model_files, pred_file,
                   params, loaded_args, batch, vocab>>

\* line 160; `or` does not evaluate max([]) in epoch 1
IsBestPrev(e, score, history) == e = 1 \/ score > history[Len(history)]
IsBestTie(e, score, history) == e = 1 \/ score >= Max(history)
IsBest(e, score, history) == e = 1 \/ score > Max(history)

\* lines 159-162
SaveBest ==
    /\ pc = "save_best"
    /\ IF IsBest(epoch, dev_score, dev_score_history)
       THEN /\ model_files' = Saved(model_files, args.save_name, trainer)
            /\ calls' = Append(calls, Call("save", epoch, 0))
       ELSE UNCHANGED <<model_files, calls>>
    /\ pc' = "lr_schedule"
    /\ UNCHANGED <<raised, run, args, train_batch, dev_batch, trainer, epoch, i,
                   global_step, max_steps, dev_score_history, current_lr,
                   dev_preds, dev_score, best, config_file, pred_file,
                   params, loaded_args, batch, vocab>>

\* line 165, left operand: the schedule is active in this epoch
DecayActive(e, decay_epoch) == e > decay_epoch

\* line 165, right operand, evaluated on a non-empty history
NotImprovedMax(score, history) == score <= Max(history)
NotImproved(score, history) == score <= history[Len(history)]

\* line 166; lr_decay is in tenths
Decayed(lr, lr_decay) == (lr * lr_decay) \div 10

\* lines 164-167 with the decayed rate written back to the options as well
LrScheduleIntoArgs ==
    /\ pc = "lr_schedule"
    /\ IF ~DecayActive(epoch, args.decay_epoch)
       THEN /\ pc' = "append"
            /\ UNCHANGED <<raised, current_lr, trainer, calls, args>>
       ELSE IF dev_score_history = <<>>
       THEN /\ pc' = "fault"
            /\ raised' = "IndexError"
            /\ UNCHANGED <<current_lr, trainer, calls, args>>
       ELSE IF NotImproved(dev_score, dev_score_history)
       THEN /\ current_lr' = Decayed(current_lr, args.lr_decay)
            /\ args' = [args EXCEPT !.lr = Decayed(current_lr, args.lr_decay)]
            /\ trainer' = [trainer EXCEPT !.lr = Decayed(current_lr, args.lr_decay)]
            /\ calls' = Append(calls, Call("change_lr", epoch,
                                           Decayed(current_lr, args.lr_decay)))
            /\ pc' = "append"
            /\ UNCHANGED raised
       ELSE /\ pc' = "append"
            /\ UNCHANGED <<raised, current_lr, trainer, calls, args>>
    /\ UNCHANGED <<run, train_batch, dev_batch, epoch, i, global_step,
                   max_steps, dev_score_history, dev_preds, dev_score, best,
                   config_file, model_files, pred_file, params, loaded_args,
                   batch, vocab>>

\* lines 164-167; dev_score_history[-1] raises IndexError on the empty history
LrSchedule ==
    /\ pc = "lr_schedule"
    /\ IF ~DecayActive(epoch, args.decay_epoch)
       THEN /\ pc' = "append"
            /\ UNCHANGED <<raised, current_lr, trainer, calls>>
       ELSE IF dev_score_history = <<>>
       THEN /\ pc' = "fault"
            /\ raised' = "IndexError"
            /\ UNCHANGED <<current_lr, trainer, calls>>
       ELSE IF NotImproved(dev_score, dev_score_history)
       THEN /\ current_lr' = Decayed(current_lr, args.lr_decay)
            /\ trainer' = [trainer EXCEPT !.lr = Decayed(current_lr, args.lr_decay)]
            /\ calls' = Append(calls, Call("change_lr", epoch,
                                           Decayed(current_lr, args.lr_decay)))
            /\ pc' = "append"
            /\ UNCHANGED raised
       ELSE /\ pc' = "append"
            /\ UNCHANGED <<raised, current_lr, trainer, calls>>
    /\ UNCHANGED <<run, args, train_batch, dev_batch, epoch, i, global_step,
                   max_steps, dev_score_history, dev_preds, dev_score, best,
                   config_file, model_files, pred_file, params, loaded_args,
                   batch, vocab>>

\* line 169: dev_score_history += [dev_score]
AppendedOverLast(history, score) ==
    IF history = <<>> THEN <<score>> ELSE [history EXCEPT ![Len(history)] = score]
Appended(history, score) == history \o <<score>>

\* lines 169-170
AppendScore ==
    /\ pc = "append"
    /\ dev_score_history' = Appended(dev_score_history, dev_score)
    /\ pc' = "for_epoch"
    /\ UNCHANGED <<raised, run, args, train_batch, dev_batch, trainer, epoch, i,
                   global_step, max_steps, current_lr, dev_preds, dev_score,
                   best, calls, config_file, model_files, pred_file, params,
                   loaded_args, batch, vocab>>

\* line 174
BestFLast(history) == history[Len(history)] * 100
BestF(history) == Max(history) * 100
BestEpochLast(history) ==
    CHOOSE k \in 1..Len(history) :
        /\ history[k] = Max(history)
        /\ \A j \in (k + 1)..Len(history) : history[j] # Max(history)
BestEpoch(history) == ArgMax(history) + 1

\* param_manager.update(args, score): the record is replaced when there is
\* none for the language or the score is strictly better than the stored one
update(store, a, score) ==
    IF store = NoFile \/ score > store.score
    THEN [params |-> a, score |-> score]
    ELSE store

\* lines 172-177; with num_epoch <= 0 the loop never binds `epoch` and the
\* print of line 172 raises UnboundLocalError
TrainEnd ==
    /\ pc = "train_end"
    /\ IF epoch = 0
       THEN /\ pc' = "fault"
            /\ raised' = "UnboundLocalError"
            /\ UNCHANGED <<best, params, calls>>
       ELSE /\ best' = [best_f |-> BestF(dev_score_history),
                        best_epoch |-> BestEpoch(dev_score_history)]
            /\ params' = update(params, args, BestF(dev_score_history))
            /\ calls' = Append(calls, Call("param_update", epoch,
                                           BestF(dev_score_history)))
            /\ pc' = "done"
            /\ UNCHANGED raised
    /\ UNCHANGED <<run, args, train_batch, dev_batch, trainer, epoch, i,
                   global_step, max_steps, dev_score_history, current_lr,
                   dev_preds, dev_score, config_file, model_files, pred_file,
                   loaded_args, batch, vocab>>

\* -------------------------------------------------------------- evaluate
\* trainer.load(filename) on a trainer built for a vocabulary of `v` symbols
\* from options recording `vocab_size`: the outcomes it can have.  A missing
\* file, or a file written by the other trainer type, cannot be loaded; a
\* Trainer facing a vocabulary-size mismatch rejects the file or warns and
\* loads it.
LoadOutcomes(file, kind, v, vocab_size) ==
    IF file = NoFile \/ file.kind # kind THEN {"fail"}
    ELSE IF kind = "seq" /\ v # vocab_size THEN {"reject", "warn"}
    ELSE {"ok"}

SkipEvaluationNever(n) == n < 0
\* line 189
SkipEvaluation(n) == n = 0

\* lines 179-193: load the persisted configuration and the data; without eval
\* data report the language with no score and exit()
EvalInit ==
    /\ pc = "evaluate"
    /\ IF config_file = NoFile
       THEN /\ pc' = "fault"
            /\ raised' = "FileNotFoundError"
            /\ UNCHANGED <<loaded_args, batch, vocab, calls>>
       ELSE /\ loaded_args' = config_file
            /\ raised' = raised
            /\ \E n \in Lens, v \in VocabSizes :
                /\ batch' = n
                /\ vocab' = v
                /\ IF SkipEvaluation(n)
                   THEN /\ calls' = Append(calls, Call("report", 0, -1))
                        /\ pc' = "exit"
                   ELSE /\ calls' = calls
                        /\ pc' = "eval_trainer"
    /\ UNCHANGED <<run, args, train_batch, dev_batch, trainer, epoch, i,
                   global_step, max_steps, dev_score_history, current_lr,
                   dev_preds, dev_score, best, config_file, model_files,
                   pred_file, params>>

EvalModelFileOfArgs == ModelFile(args)
\* line 198
EvalModelFile == loaded_args.save_name

EvalKindOfArgs == TrainerKind(args)
\* line 201: the persisted flag, not the invocation's, selects the trainer
EvalKind == TrainerKind(loaded_args)

\* lines 195-207: build the trainer the persisted flag selects and load the
\* checkpoint into it
EvalTrainer ==
    /\ pc = "eval_trainer"
    /\ LET kind == EvalKind
           file == model_files[EvalModelFile]
       IN \E o \in LoadOutcomes(file, kind, vocab, loaded_args.vocab_size) :
           /\ calls' = Append(Append(calls,
                   Call(IF kind = "dict" THEN "DictTrainer" ELSE "Trainer", 0, 0)),
                   Call("load", 0, 0))
           /\ IF o \in {"fail", "reject"}
              THEN /\ pc' = "fault"
                   /\ raised' = "LoadError"
                   /\ trainer' = [kind |-> kind, steps |-> 0, lr |-> 0]
              ELSE /\ pc' = IF kind = "dict" THEN "eval_predict_dict"
                                              ELSE "eval_predict"
                   /\ raised' = raised
                   /\ trainer' = file
    /\ i' = 0
    /\ dev_preds' = <<>>
    /\ UNCHANGED <<run, args, train_batch, dev_batch, epoch, global_step,
                   max_steps, dev_score_history, current_lr, dev_score, best,
                   config_file, model_files, pred_file, params, loaded_args,
                   batch, vocab>>

\* line 204
EvalPredictDict ==
    /\ pc = "eval_predict_dict"
    /\ dev_preds' = <<AllCands>>
    /\ calls' = Append(calls, Call("predict", 0, AllCands))
    /\ pc' = "eval_write"
    /\ UNCHANGED <<raised, run, args, train_batch, dev_batch, trainer, epoch, i,
                   global_step, max_steps, dev_score_history, current_lr,
                   dev_score, best, config_file, model_files, pred_file,
                   params, loaded_args, batch, vocab>>

\* lines 209-211: one eval batch
EvalPredict ==
    /\ pc = "eval_predict"
    /\ dev_preds' = Append(dev_preds, i + 1)
    /\ calls' = Append(calls, Call("predict", 0, i + 1))
    /\ IF i + 1 < batch
       THEN i' = i + 1 /\ pc' = "eval_predict"
       ELSE i' = 0 /\ pc' = "eval_write"
    /\ UNCHANGED <<raised, run, args, train_batch, dev_batch, trainer, epoch,
                   global_step, max_steps, dev_score_history, current_lr,
                   dev_score, best, config_file, model_files, pred_file,
                   params, loaded_args, batch, vocab>>

\* line 214
EvalWrite ==
    /\ pc = "eval_write"
    /\ pred_file' = [preds |-> dev_preds]
    /\ calls' = Append(calls, Call("write", 0, Len(dev_preds)))
    /\ pc' = "eval_score"
    /\ UNCHANGED <<raised, run, args, train_batch, dev_batch, trainer, epoch, i,
                   global_step, max_steps, dev_score_history, current_lr,
                   dev_preds, dev_score, best, config_file, model_files,
                   params, loaded_args, batch, vocab>>

\* lines 215-218
EvalScore ==
    /\ pc = "eval_score"
    /\ \E f \in Scores :
        /\ dev_score' = f
        /\ calls' = Append(Append(calls, Call("score", 0, f)),
                           Call("report", 0, f * 100))
    /\ pc' = "done"
    /\ UNCHANGED <<raised, run, args, train_batch, dev_batch, trainer, epoch, i,
                   global_step, max_steps, dev_score_history, current_lr,
                   dev_preds, best, config_file, model_files, pred_file,
                   params, loaded_args, batch, vocab>>

Next ==
    \/ Main
    \/ TrainInit
    \/ DictTrain
    \/ DictPredict
    \/ DictWrite
    \/ DictScore
    \/ DictSave
    \/ SeqInit
    \/ ForEpoch
    \/ Update
    \/ Predict
    \/ Write
    \/ Score
    \/ SaveBest
    \/ LrSchedule
    \/ AppendScore
    \/ TrainEnd
    \/ EvalInit
    \/ EvalTrainer
    \/ EvalPredictDict
    \/ EvalPredict
    \/ EvalWrite
    \/ EvalScore

Spec == Init /\ [][Next]_vars

\* ======================================================================
\* Properties
\* ======================================================================
\* a sequence-strategy training run, from the construction of its Trainer on
SeqTraining == args.mode = "train" /\ trainer.kind = "seq"

\* the calls `op` made so far, in order
CallsTo(op) == SelectSeq(calls, LAMBDA c : c.op = op)

\* whether a call of the sequence `cs` was made in epoch e
InEpoch(cs, e) == \E k \in 1..Len(cs) : cs[k].ep = e

\* one call at most per epoch, in epochs 1..epoch, in increasing order
OncePerEpoch(cs) ==
    /\ \A k \in 1..Len(cs) : cs[k].ep \in 1..epoch
    /\ \A k \in 1..(Len(cs) - 1) : cs[k].ep < cs[k + 1].ep

SetMax(S) == CHOOSE x \in S : \A y \in S : y <= x

\* the largest of the first n scores the scorer returned (sc: its calls)
MaxScoreUpTo(sc, n) == SetMax({sc[j].n : j \in 1..n})

\* the checkpoint decision (lines 159-162) of epoch e is behind the run
CheckpointDecided(e) ==
    \/ e < epoch
    \/ /\ e = epoch
       /\ \/ pc \in {"lr_schedule", "append", "for_epoch", "train_end", "done"}
          \/ pc = "fault" /\ raised = "IndexError"

\* the learning-rate decision (lines 164-167) of epoch e is behind the run,
\* the one ended by the IndexError of line 165 included
LrDecided(e) ==
    \/ e < epoch
    \/ /\ e = epoch
       /\ \/ pc \in {"append", "for_epoch", "train_end", "done"}
          \/ pc = "fault" /\ raised = "IndexError"

\* C1: in the sequence-strategy loop trainer.save is called in epoch e, once,
\* if and only if e is the first epoch or the dev score of epoch e is strictly
\* greater than the maximum of the dev scores of epochs 1..e-1; a score equal
\* to that maximum causes no save.
C1_SaveIffFirstOrStrictlyBetter ==
    SeqTraining =>
        LET sc == CallsTo("score")
            sv == CallsTo("save")
        IN  /\ OncePerEpoch(sc)
            /\ OncePerEpoch(sv)
            /\ \A e \in 1..epoch :
                   InEpoch(sv, e) <=>
                       /\ CheckpointDecided(e)
                       /\ \/ e = 1
                          \/ sc[e].n > MaxScoreUpTo(sc, e - 1)

\* a run whose second epoch ties the first (no save) and whose third beats both
C1_Witness ==
    /\ SeqTraining
    /\ pc = "done"
    /\ dev_score_history = <<0, 0, 1>>
    /\ ~InEpoch(CallsTo("save"), 2)
    /\ InEpoch(CallsTo("save"), 3)

RECURSIVE DecayedTimes(_, _, _)
DecayedTimes(lr, lr_decay, k) ==
    IF k = 0 THEN lr ELSE (DecayedTimes(lr, lr_decay, k - 1) * lr_decay) \div 10

\* the epochs up to e whose score, by the rule of C2, asks for a decay
\* (sc: the scorer's calls)
DecayEpochsUpTo(sc, e) ==
    {d \in 2..e : d > args.decay_epoch /\ sc[d].n <= sc[d - 1].n}

CompletedEpochs ==
    IF pc \in {"for_epoch", "train_end", "done"} \/ epoch = 0
    THEN epoch ELSE epoch - 1

\* C3: the dev score history is append-only and as long as the number of
\* completed epochs: empty before epoch 1, of length e-1 while the decisions of
\* epoch e are taken, of length e once epoch e completes, its k-th entry being
\* for good the score the scorer returned in epoch k.
C3_HistoryIsTheCompletedEpochsScores ==
    SeqTraining =>
        LET sc == CallsTo("score")
        IN  /\ Len(dev_score_history) = CompletedEpochs
            /\ \A k \in 1..Len(dev_score_history) :
                   sc[k].ep = k /\ dev_score_history[k] = sc[k].n

\* the decisions of epoch 3 are taken on a history of two different entries
C3_Witness ==
    /\ SeqTraining
    /\ pc = "lr_schedule"
    /\ epoch = 3
    /\ dev_score_history = <<1, 0>>

\* C4: a training run whose training or dev loader has no batches ends through
\* exit() having built no trainer and made no update, predict, score, save,
\* change_lr or preset-store call, on either strategy, and leaves no model
\* file behind.
C4_NoDataSkipsTraining ==
    (/\ args.mode = "train"
     /\ pc \notin {"main", "train"}
     /\ (train_batch = 0 \/ dev_batch = 0)) =>
        /\ pc = "exit"
        /\ raised = None
        /\ trainer = NoTrainer
        /\ calls = <<Call("save_config", 0, 0)>>
        /\ global_step = 0
        /\ \A p \in ModelPaths : model_files[p] = NoFile

\* sequence strategy, dev data present, no training data
C4_Witness ==
    /\ args.mode = "train"
    /\ pc = "exit"
    /\ ~args.dict_only
    /\ train_batch = 0
    /\ dev_batch = 2

DictOps == <<"save_config", "DictTrainer", "train", "predict", "write", "score", "save">>

\* C5: with the dictionary flag and data on both sides the run makes, in this
\* order, one train call, one predict over the dev candidates, one write of
\* the predictions, one scorer call and one save, whatever the score; it makes
\* no update and no change_lr call and never enters the epoch loop.
C5_DictionaryPathIsOneCycle ==
    (/\ args.mode = "train"
     /\ pc \notin {"main", "train", "exit"}
     /\ args.dict_only) =>
        /\ pc \in {"dispatch", "dict_predict", "dict_write", "dict_score",
                    "dict_save", "done"}
        /\ Len(calls) <= Len(DictOps)
        /\ \A k \in 1..Len(calls) :
               /\ calls[k].op = DictOps[k]
               /\ calls[k].ep = 0
               /\ calls[k].op = "predict" => calls[k].n = AllCands
        /\ epoch = 0 /\ global_step = 0 /\ dev_score_history = <<>>
        /\ pc = "done" =>
               /\ Len(calls) = Len(DictOps)
               /\ trainer.kind = "dict"
               /\ model_files[args.save_name] = trainer

\* the dictionary is saved after a dev score of zero
C5_Witness ==
    /\ args.mode = "train"
    /\ args.dict_only
    /\ pc = "done"
    /\ dev_score = 0
    /\ model_files[args.save_name].kind = "dict"

\* C6: at the end of a sequence-strategy run of num_epoch >= 1 epochs the best
\* score reported is 100 times the maximum of the dev score history and the
\* best epoch reported is the smallest 1-based index holding that maximum.
C6_BestIsFirstMaximum ==
    (SeqTraining /\ pc = "done") =>
        LET h == dev_score_history
            m == SetMax({h[k] : k \in 1..Len(h)})
        IN  /\ Len(h) = args.num_epoch
            /\ Len(h) >= 1
            /\ best.best_f = 100 * m
            /\ best.best_epoch \in 1..Len(h)
            /\ h[best.best_epoch] = m
            /\ \A j \in 1..(best.best_epoch - 1) : h[j] < m

\* the maximum is reached in epochs 2 and 3; epoch 2 is reported
C6_Witness ==
    /\ SeqTraining
    /\ pc = "done"
    /\ dev_score_history = <<0, 1, 1>>
    /\ best = [best_f |-> 100, best_epoch |-> 2]

\* the epochs whose checkpoint decision is behind the run
DecidedEpochs ==
    IF epoch >= 1 /\ CheckpointDecided(epoch) THEN epoch ELSE epoch - 1

\* the earliest of the epochs 1..n whose score is the maximum of their scores
FirstBestEpoch(sc, n) ==
    CHOOSE e \in 1..n :
        /\ sc[e].n = MaxScoreUpTo(sc, n)
        /\ \A j \in 1..(e - 1) : sc[j].n < sc[e].n

\* C7: from the checkpoint decision of epoch 1 on, the configured model path
\* holds the one model file there is, and it is the trainer state saved in the
\* earliest epoch that attains the maximum dev score among the epochs whose
\* checkpoint decision has been taken; at the end the epoch of the last save
\* is the best epoch reported.
C7_CheckpointIsEarliestBest ==
    (SeqTraining /\ DecidedEpochs >= 1) =>
        LET sc == CallsTo("score")
            sv == CallsTo("save")
            b == FirstBestEpoch(sc, DecidedEpochs)
            file == model_files[args.save_name]
        IN  /\ \A p \in ModelPaths : model_files[p] # NoFile <=> p = args.save_name
            /\ file.kind = "seq"
            /\ file.steps = b * train_batch
            /\ file.lr = DecayedTimes(args.lr, args.lr_decay,
                                      Cardinality(DecayEpochsUpTo(sc, b - 1)))
            /\ sv[Len(sv)].ep = b
            /\ pc = "done" => best.best_epoch = b

\* epochs 2 and 3 tie at the top: the file holds the state after epoch 2
C7_Witness ==
    /\ SeqTraining
    /\ pc = "done"
    /\ train_batch = 2
    /\ dev_score_history = <<0, 1, 1>>
    /\ model_files[args.save_name].steps = 4
    /\ CallsTo("save")[2].ep = 2
    /\ Len(CallsTo("save")) = 2

\* the calls a predict run with eval data makes, given the persisted flag
EvalCalls ==
    IF loaded_args.dict_only
    THEN <<Call("DictTrainer", 0, 0), Call("load", 0, 0),
           Call("predict", 0, AllCands), Call("write", 0, 1),
           Call("score", 0, 0), Call("report", 0, 0)>>
    ELSE <<Call("Trainer", 0, 0), Call("load", 0, 0)>>
         \o [k \in 1..batch |-> Call("predict", 0, k)]
         \o <<Call("write", 0, batch), Call("score", 0, 0), Call("report", 0, 0)>>

\* C8: in predict mode the trainer built and loaded is the one the dict_only
\* flag of the persisted options selects, whatever flag the invocation
\* carries: a DictTrainer with one predict over the candidates, or a Trainer
\* with one predict per eval batch in batch order; one load comes before every
\* predict, and the predictions are then written once and scored once.
C8_PersistedFlagSelectsTrainer ==
    (/\ args.mode = "predict"
     /\ loaded_args # NoArgs
     /\ pc # "exit") =>
        /\ Len(calls) <= Len(EvalCalls)
        /\ \A k \in 1..Len(calls) :
               /\ calls[k].op = EvalCalls[k].op
               /\ calls[k].op \in {"predict", "write"} => calls[k].n = EvalCalls[k].n
        /\ trainer # NoTrainer =>
               trainer.kind = (IF loaded_args.dict_only THEN "dict" ELSE "seq")
        /\ pc # "eval_trainer" => Len(calls) >= 2
        /\ pc = "done" =>
               /\ Len(calls) = Len(EvalCalls)
               /\ pred_file = [preds |-> dev_preds]

\* the invocation asks for the dictionary, the persisted options for the model
C8_Witness ==
    /\ args.mode = "predict"
    /\ pc = "done"
    /\ args.dict_only
    /\ ~loaded_args.dict_only
    /\ batch = 2
    /\ trainer.kind = "seq"

\* C9: a predict run whose eval loader has no batches reports the language
\* with no score and ends through exit() having built and loaded no trainer
\* and made no predict, write or scorer call.
C9_NoEvalDataSkipsEvaluation ==
    (/\ args.mode = "predict"
     /\ loaded_args # NoArgs
     /\ batch = 0) =>
        /\ pc = "exit"
        /\ raised = None
        /\ trainer = NoTrainer
        /\ calls = <<Call("report", 0, -1)>>
        /\ dev_preds = <<>>

C9_Witness ==
    /\ args.mode = "predict"
    /\ pc = "exit"
    /\ batch = 0
    /\ model_files[loaded_args.save_name] # NoFile
    /\ calls = <<Call("report", 0, -1)>>

\* C10: in predict mode, when the vocabulary derived from the eval data is not
\* of the size the persisted options record, evaluation halts before any
\* predict call and produces no prediction file and no score.
C10_VocabMismatchHalts ==
    (/\ args.mode = "predict"
     /\ loaded_args # NoArgs
     /\ vocab # loaded_args.vocab_size) =>
        \A k \in 1..Len(calls) : calls[k].op \notin {"predict", "write", "score"}

\* what ends a sequence-strategy run whose progress record is printed at every
\* step (log_step = 1), as the other options decide it: the loop never binds
\* `epoch` (line 172), or epoch 1 reads the empty history (line 165), or the
\* run reaches its end
OutcomeWithoutLogStep ==
    IF args.num_epoch <= 0 THEN "UnboundLocalError"
    ELSE IF args.decay_epoch < 1 THEN "IndexError"
    ELSE None

\* C11: the logging cadence has no control effect: runs that differ only in
\* log_step and see the same scores make the same update, predict, save and
\* change_lr calls and end the same way.  So every finished run ends the way
\* the run logging at every step ends, after as many update calls.
C11_LogStepHasNoControlEffect ==
    (SeqTraining /\ pc \in {"done", "fault"}) =>
        /\ raised = OutcomeWithoutLogStep
        /\ Len(CallsTo("update")) =
               (IF OutcomeWithoutLogStep = None THEN args.num_epoch * train_batch
                ELSE IF OutcomeWithoutLogStep = "IndexError" THEN train_batch
                ELSE 0)

\* the calls of the epoch loop that act on the trainer, the predictions or the
\* scorer, in order (the progress records left out)
LoopOps == {"update", "predict", "write", "score", "save", "change_lr"}
LoopCalls == SelectSeq(calls, LAMBDA c : c.op \in LoopOps)

\* the place of a call in the body of an epoch (lines 137-167): the updates
\* by batch, the predicts by batch, the write, the score, the save, the decay
Place(c) ==
    IF c.op = "update" THEN c.n
    ELSE IF c.op = "predict" THEN train_batch + c.n
    ELSE IF c.op = "write" THEN train_batch + dev_batch + 1
    ELSE IF c.op = "score" THEN train_batch + dev_batch + 2
    ELSE IF c.op = "save" THEN train_batch + dev_batch + 3
    ELSE train_batch + dev_batch + 4

\* C12: within every epoch of the sequence-strategy loop the calls are in the
\* order update (every training batch), predict (once for every dev batch),
\* write, score, then the checkpoint decision, then the learning-rate
\* decision, and only then the score is appended to the history; an epoch
\* starts only after the score of the one before; the predictions written are
\* those of all dev batches, and no score is in the history for an epoch whose
\* dev set was only partly predicted.
C12_EpochOperationsInOrder ==
    SeqTraining =>
        LET lc == LoopCalls
            scored == train_batch + dev_batch + 2
        IN  /\ lc # <<>> => lc[1] = Call("update", 1, 1)
            /\ \A k \in 1..(Len(lc) - 1) :
                   IF lc[k + 1].ep = lc[k].ep
                   THEN IF Place(lc[k]) < scored
                        THEN Place(lc[k + 1]) = Place(lc[k]) + 1
                        ELSE Place(lc[k + 1]) > Place(lc[k])
                   ELSE /\ lc[k + 1].ep = lc[k].ep + 1
                        /\ Place(lc[k]) >= scored
                        /\ lc[k + 1].op = "update" /\ lc[k + 1].n = 1
            /\ \A k \in 1..Len(lc) : lc[k].op = "write" => lc[k].n = dev_batch
            /\ pc \in {"update", "predict", "write", "score", "save_best",
                       "lr_schedule", "append"} =>
                   Len(dev_score_history) = epoch - 1
            /\ Len(dev_score_history) * dev_batch <= Len(CallsTo("predict"))

\* two epochs of two training and two dev batches each, the second of which
\* saves a checkpoint
C12_Witness ==
    /\ SeqTraining
    /\ pc = "done"
    /\ train_batch = 2
    /\ dev_batch = 2
    /\ dev_score_history = <<0, 1>>
    /\ Len(CallsTo("predict")) = 4
    /\ InEpoch(CallsTo("save"), 2)

\* the best dev score of the run on the scale of the preset store: 100 times
\* the largest score the scorer has returned
RunBest == LET sc == CallsTo("score") IN 100 * MaxScoreUpTo(sc, Len(sc))

\* C13: the preset store changes only in the step that ends a
\* sequence-strategy training run (line 177), and a record already stored is
\* replaced by the run's configuration and best score if that score is
\* strictly greater than the stored one; a run whose best score is lower than
\* or equal to the stored one leaves configuration and score as they were.
C13_PresetOverwrittenOnlyIfStrictlyBetter ==
    [][/\ params' # params =>
              SeqTraining /\ pc = "train_end" /\ pc' = "done"
       /\ (pc = "train_end" /\ pc' = "done" /\ params # NoFile) =>
              IF RunBest > params.score
              THEN params' = [params |-> args, score |-> RunBest]
              ELSE params' = params]_vars

\* a run whose best score ties the stored one has ended and the record is
\* still the earlier run's
C13_Witness ==
    /\ SeqTraining
    /\ pc = "done"
    /\ best.best_f = 100
    /\ dev_score_history = <<1, 0>>
    /\ calls[Len(calls)] = Call("param_update", 2, 100)
    /\ args # PriorArgs
    /\ params = [params |-> PriorArgs, score |-> 100]

\* C14: param_manager.update is invoked exactly once per sequence-strategy
\* training run, as the last call of the run, after the score of the last
\* epoch has been appended, with 100 times the maximum of the history; it is
\* not invoked while the loop runs, nor in a skipped run, on the dictionary
\* path or in predict mode.
C14_PresetUpdateOncePerRun ==
    LET pu == CallsTo("param_update")
    IN  IF SeqTraining /\ pc \in {"done", "fault"}
        THEN /\ Len(pu) = 1
             /\ calls[Len(calls)] = pu[1]
             /\ Len(dev_score_history) = args.num_epoch
             /\ pu[1].n = RunBest
        ELSE pu = <<>>

\* C15: with num_epoch >= 1, decay_epoch >= 0, log_step >= 1 and non-empty
\* training and dev data a sequence-strategy run reaches its end after exactly
\* num_epoch completed epochs and num_epoch * len(train_batch) update calls:
\* no exception ends it, the step counter never exceeds max_steps and equals
\* it at the end.
C15_RunsEveryEpochToTheEnd ==
    (/\ SeqTraining
     /\ args.num_epoch >= 1
     /\ args.decay_epoch >= 0
     /\ args.log_step >= 1
     /\ train_batch > 0
     /\ dev_batch > 0) =>
        /\ pc # "fault"
        /\ global_step <= max_steps
        /\ pc = "done" =>
               /\ epoch = args.num_epoch
               /\ Len(dev_score_history) = args.num_epoch
               /\ Len(CallsTo("update")) = args.num_epoch * train_batch
               /\ global_step = max_steps

\* C16: in no epoch of the sequence-strategy loop are both a checkpoint saved
\* and the learning rate decayed: an epoch with a save call has no change_lr
\* call, whatever the dev scores and decay_epoch.
C16_NoSaveAndDecayInOneEpoch ==
    SeqTraining =>
        LET sv == CallsTo("save")
            ch == CallsTo("change_lr")
        IN  \A e \in 1..epoch : ~(InEpoch(sv, e) /\ InEpoch(ch, e))

\* with the schedule active from epoch 2 on: epoch 2 improves (save, no
\* decay), epoch 3 ties it (decay, no save)
C16_Witness ==
    /\ SeqTraining
    /\ pc = "done"
    /\ args.decay_epoch = 1
    /\ dev_score_history = <<0, 1, 1>>
    /\ InEpoch(CallsTo("save"), 2)
    /\ ~InEpoch(CallsTo("change_lr"), 2)
    /\ InEpoch(CallsTo("change_lr"), 3)
    /\ ~InEpoch(CallsTo("save"), 3)

\* C17: the epoch loop leaves the configuration as it was persisted at
\* training start: a decay changes the loop's current rate and the trainer's,
\* not the configured lr, and the configuration the preset store holds after
\* the run is the earlier record or, option for option, the persisted one.
C17_LoopLeavesConfigurationUnchanged ==
    SeqTraining =>
        /\ args = config_file
        /\ args.lr = DefaultLr
        /\ trainer.lr = current_lr
        /\ pc = "done" => params.params \in {config_file, PriorArgs}

\* a run that decayed its rate and whose configuration replaced the stored one
C17_Witness ==
    /\ SeqTraining
    /\ pc = "done"
    /\ current_lr = 810
    /\ config_file.lr = 1000
    /\ config_file # PriorArgs
    /\ params = [params |-> config_file, score |-> 100]

\* C18: a predict run that follows a training run with the same save_dir and
\* lang loads the model from the path the training run saved its checkpoint
\* to, with an explicit --save_name given to training or the per-language
\* default, whatever --save_name the predict run is given: the checkpoint is
\* at the path the persisted options name, the trainer evaluate has loaded is
\* that checkpoint, and a load that fails is not one of a missing file.
C18_CheckpointLocationRoundTrip ==
    (/\ args.mode = "predict"
     /\ loaded_args # NoArgs
     /\ Len(CallsTo("load")) = 1) =>
        \A p \in ModelPaths :
            model_files[p] # NoFile =>
                /\ p = config_file.save_name
                /\ IF raised = "LoadError"
                   THEN vocab # loaded_args.vocab_size
                   ELSE trainer = model_files[p]

\* training was given --save_name custom.pt, the predict run no --save_name
C18_Witness ==
    /\ args.mode = "predict"
    /\ pc = "done"
    /\ args.save_name = None
    /\ loaded_args.save_name = "saved_models/mwt/custom.pt"
    /\ model_files["saved_models/mwt/custom.pt"] # NoFile
    /\ trainer = model_files["saved_models/mwt/custom.pt"]

\* C19 as stated: every train invocation that writes the configuration file
\* has, when it terminates normally, written a checkpoint at the model path
\* the configuration names.  A run skipped for lack of data terminates
\* through exit() after save_config (lines 104-109).
C19_ConfigurationAlwaysWithCheckpoint ==
    (/\ args.mode = "train"
     /\ pc \in {"done", "exit"}
     /\ config_file # NoFile) =>
        model_files[config_file.save_name] # NoFile

\* C19, amended: every train invocation that writes the configuration file
\* and is not skipped for lack of training or dev data has, when it
\* terminates normally, written a checkpoint at the model path the
\* configuration names; the skipped run leaves the configuration file and no
\* checkpoint.
C19_ConfigurationWithCheckpointUnlessSkipped ==
    args.mode = "train" =>
        /\ pc = "done" =>
               /\ config_file # NoFile
               /\ model_files[config_file.save_name] # NoFile
        /\ pc = "exit" =>
               /\ config_file # NoFile
               /\ \A p \in ModelPaths : model_files[p] = NoFile

\* a dictionary run given --save_name custom.pt has ended with its table saved
\* where the configuration says
C19_Witness ==
    /\ args.mode = "train"
    /\ pc = "done"
    /\ config_file.dict_only
    /\ config_file.save_name = "saved_models/mwt/custom.pt"
    /\ model_files["saved_models/mwt/custom.pt"].kind = "dict"
====
